---- MODULE Spec2Model ----
(***************************************************************************)
(* A model of gilot's command line driver, src/gilot/app.py: the file      *)
(* filter built by compose_filter, the time window chosen by               *)
(* args_to_duration, and the log, hotspot and hotgraph handlers.           *)
(*                                                                         *)
(* Python values are modelled as follows.                                  *)
(*   - a str is a sequence of one-character strings; an ISO date string    *)
(*     is the pair <<year, month>> it spells;                              *)
(*   - an Optional value is the record [none, v]: None is [none |-> TRUE], *)
(*     a supplied value x is [none |-> FALSE, v |-> x];                    *)
(*   - a list object lives in `heap` and a closure holds references to it, *)
(*     as Python closures do.                                              *)
(* gilot.core (Duration, the commit table, hotspot, hotgraph) is modelled   *)
(* from the design document, and marked so where it is defined.            *)
(***************************************************************************)
EXTENDS Integers, Sequences, FiniteSets, TLC

VARIABLES pc, heap, closure, built, file_name, result, mutations,
          args, now, call, duration, error, output,
          expanded, report, graph

vars == <<pc, heap, closure, built, file_name, result, mutations,
          args, now, call, duration, error, output,
          expanded, report, graph>>

filterVars == <<heap, closure, built, file_name, result, mutations>>
logVars == <<now, call, duration, output>>
reportVars == <<expanded, report, graph>>

(***************************************************************************)
(* Bounds of the model.                                                    *)
(***************************************************************************)
MaxListLen == 2
MaxNameLen == 2
MaxMutations == 1

(***************************************************************************)
(* Optional values and Python truthiness (`x or default`, `if x`).         *)
(***************************************************************************)
None == [none |-> TRUE, v |-> <<>>]
Some(x) == [none |-> FALSE, v |-> x]
Truthy(x) == ~x.none /\ x.v # <<>>

(***************************************************************************)
(* File names and glob patterns.                                           *)
(***************************************************************************)
Chars == {"a", "b"}
SeqsUpTo(S, n) == UNION {[1..k -> S] : k \in 0..n}
Names == SeqsUpTo(Chars, MaxNameLen) \ {<<>>}
Star == <<"*">>
Patterns == {Star, <<"a", "*">>, <<"?", "b">>, <<"b">>}
PatternLists == SeqsUpTo(Patterns, MaxListLen)
ListArgs == {None} \cup {Some(l) : l \in PatternLists}

\* fnmatch.fnmatch on a POSIX system: `*` matches any run of characters, `?`
\* matches one character, any other character matches itself, and the whole
\* name must be matched.
RECURSIVE fnmatch(_, _)
fnmatch(name, pat) ==
    IF pat = <<>> THEN name = <<>>
    ELSE IF Head(pat) = "*"
         THEN fnmatch(name, Tail(pat))
              \/ (name # <<>> /\ fnmatch(Tail(name), pat))
    ELSE /\ name # <<>>
         /\ (Head(pat) = "?" \/ Head(pat) = Head(name))
         /\ fnmatch(Tail(name), Tail(pat))

AnyMatch(name, list) == \E i \in 1..Len(list) : fnmatch(name, list[i])

(***************************************************************************)
(* compose_filter.  The closure keeps a reference to the caller's list     *)
(* when that list is truthy and to a list of its own otherwise.            *)
(***************************************************************************)
compose_filter_alias_empty(allow, deny) ==
    [allow_list |-> IF ~allow.none THEN "allow" ELSE "star",
     deny_list  |-> IF ~deny.none THEN "deny" ELSE "empty"]

compose_filter_no_default(allow, deny) ==
    [allow_list |-> IF Truthy(allow) THEN "allow" ELSE "empty",
     deny_list  |-> IF Truthy(deny) THEN "deny" ELSE "empty"]

compose_filter(allow, deny) ==
    [allow_list |-> IF Truthy(allow) THEN "allow" ELSE "star",
     deny_list  |-> IF Truthy(deny) THEN "deny" ELSE "empty"]

\* The list object a reference of the closure denotes, given the heap.
Deref(h, ref) ==
    CASE ref = "allow" -> h.allow.v
      [] ref = "deny"  -> h.deny.v
      [] ref = "star"  -> <<Star>>
      [] OTHER         -> <<>>

match_ignores_deny(cl, h, name) ==
    AnyMatch(name, Deref(h, cl.allow_list))

match_first_allow_only(cl, h, name) ==
    LET al == Deref(h, cl.allow_list)
    IN  /\ al # <<>>
        /\ fnmatch(name, al[1])
        /\ ~AnyMatch(name, Deref(h, cl.deny_list))

\* The inner function `match` of compose_filter.
match(cl, h, name) ==
    LET is_allowed == AnyMatch(name, Deref(h, cl.allow_list))
        is_denyed  == AnyMatch(name, Deref(h, cl.deny_list))
    IN  is_allowed /\ ~is_denyed

\* compose_filter(allow, deny)(name), the lists untouched in between.
Filter(allow, deny, name) ==
    match(compose_filter(allow, deny), [allow |-> allow, deny |-> deny], name)

(***************************************************************************)
(* Values the variables of the other commands hold while one is modelled.  *)
(***************************************************************************)
NoClosure == [allow_list |-> "empty", deny_list |-> "empty"]
NoArgs == [cmd |-> "none"]
NoCall == [fn |-> "none"]
NoDuration == [start |-> 0, end |-> 0]
NoOutput == [written |-> FALSE, rows |-> {}]
NoGraph == [rank |-> 0, stop_retry |-> FALSE, weights |-> {}, threshold |-> 0,
            edges |-> {}, nodes |-> {}, retries |-> 0, passes |-> 0]

FilterIdle ==
    /\ heap = [allow |-> None, deny |-> None]
    /\ closure = NoClosure
    /\ built = heap
    /\ file_name = <<>>
    /\ result = FALSE
    /\ mutations = 0

LogIdle ==
    /\ now = <<>>
    /\ call = NoCall
    /\ duration = NoDuration
    /\ output = NoOutput

ReportIdle ==
    /\ expanded = {}
    /\ report = {}
    /\ graph = NoGraph

(***************************************************************************)
(* The file filter on its own: a caller builds the predicate from two      *)
(* lists and applies it to file names.                                     *)
(***************************************************************************)
InitFilter ==
    /\ pc = "start"
    /\ heap \in [allow : ListArgs, deny : ListArgs]
    /\ closure = NoClosure
    /\ built = heap
    /\ file_name = <<>>
    /\ result = FALSE
    /\ mutations = 0
    /\ args = NoArgs
    /\ error = "none"
    /\ LogIdle
    /\ ReportIdle

\* predicate = compose_filter(allow, deny)
ComposeFilter ==
    /\ pc = "start"
    /\ closure' = compose_filter(heap.allow, heap.deny)
    /\ built' = heap
    /\ pc' = "built"
    /\ UNCHANGED <<heap, file_name, result, mutations, args, error>>
    /\ UNCHANGED <<logVars, reportVars>>

\* predicate(file_name)
CallMatch ==
    /\ pc \in {"built", "applied"}
    /\ \E n \in Names :
         /\ file_name' = n
         /\ result' = match(closure, heap, n)
    /\ pc' = "applied"
    /\ UNCHANGED <<heap, closure, built, mutations, args, error>>
    /\ UNCHANGED <<logVars, reportVars>>

NextFilter == ComposeFilter \/ CallMatch

SpecFilter == InitFilter /\ [][NextFilter]_vars

(***************************************************************************)
(* The same, with a caller that goes on using its lists: allow.append(p),  *)
(* deny.pop(), ... after the predicate was built.                          *)
(***************************************************************************)
ShortLists == {None} \cup {Some(l) : l \in SeqsUpTo(Patterns, 1)}

InitAlias ==
    /\ pc = "start"
    /\ heap \in [allow : ShortLists, deny : ShortLists]
    /\ closure = NoClosure
    /\ built = heap
    /\ file_name = <<>>
    /\ result = FALSE
    /\ mutations = 0
    /\ args = NoArgs
    /\ error = "none"
    /\ LogIdle
    /\ ReportIdle

\* The caller's list `which` after list.append(p) or list.pop().
Mutated(h, which, l) == [h EXCEPT ![which] = Some(l)]

CallerMutate ==
    /\ pc \in {"built", "applied"}
    /\ mutations < MaxMutations
    /\ \E which \in {"allow", "deny"} :
         /\ ~heap[which].none
         /\ \/ \E p \in Patterns :
                 /\ Len(heap[which].v) < MaxListLen
                 /\ heap' = Mutated(heap, which, Append(heap[which].v, p))
            \/ /\ heap[which].v # <<>>
               /\ heap' = Mutated(heap, which,
                                  SubSeq(heap[which].v, 1, Len(heap[which].v) - 1))
    /\ mutations' = mutations + 1
    /\ pc' = "built"
    /\ UNCHANGED <<closure, built, file_name, result, args, error>>
    /\ UNCHANGED <<logVars, reportVars>>

NextAlias == ComposeFilter \/ CallMatch \/ CallerMutate

SpecAlias == InitAlias /\ [][NextAlias]_vars

(***************************************************************************)
(* gilot log: the time window.                                             *)
(***************************************************************************)
Dates == {<<2020, 1>>, <<2020, 6>>, <<2021, 1>>}
DateArgs == {None, Some(<<>>)} \cup {Some(d) : d \in Dates}
MonthArgs == {None, Some(<<>>), Some(<<"0">>), Some(<<"-", "1">>),
              Some(<<"1">>), Some(<<"3">>), Some(<<"1", "2">>), Some(<<"x">>)}
DefaultMonths == 6

\* int(str): an optional sign and decimal digits, ValueError otherwise.
DigitVal == [c \in {"0", "1", "2", "3", "4", "5", "6", "7", "8", "9"} |->
               CASE c = "0" -> 0 [] c = "1" -> 1 [] c = "2" -> 2 [] c = "3" -> 3
                 [] c = "4" -> 4 [] c = "5" -> 5 [] c = "6" -> 6 [] c = "7" -> 7
                 [] c = "8" -> 8 [] OTHER -> 9]
Unsigned(s) == IF s # <<>> /\ Head(s) \in {"-", "+"} THEN Tail(s) ELSE s
IsInt(s) ==
    /\ Unsigned(s) # <<>>
    /\ \A i \in 1..Len(Unsigned(s)) : Unsigned(s)[i] \in DOMAIN DigitVal
RECURSIVE NatOf(_)
NatOf(ds) ==
    IF ds = <<>> THEN 0
    ELSE NatOf(SubSeq(ds, 1, Len(ds) - 1)) * 10 + DigitVal[ds[Len(ds)]]
int(s) == IF Head(s) = "-" THEN 0 - NatOf(Tail(s)) ELSE NatOf(Unsigned(s))

\* The calls args_to_duration makes into gilot.core.
RangeCall(since, until) ==
    [fn |-> "range", month |-> 0, since |-> Some(since), until |-> Some(until)]
MonthsCall(month, since) ==
    [fn |-> "months", month |-> month, since |-> since, until |-> None]
IntFails == [fn |-> "ValueError", month |-> 0, since |-> None, until |-> None]
\* Duration.months(int(month), since=...)
MonthsOf(month, since) ==
    IF IsInt(month) THEN MonthsCall(int(month), since) ELSE IntFails

args_to_duration_month_first(a) ==
    IF Truthy(a.since) /\ Truthy(a.month)
    THEN MonthsOf(a.month.v, Some(a.since.v))
    ELSE IF Truthy(a.since) /\ Truthy(a.until)
    THEN RangeCall(a.since.v, a.until.v)
    ELSE IF Truthy(a.since)
    THEN MonthsCall(DefaultMonths, Some(a.since.v))
    ELSE IF Truthy(a.month)
    THEN MonthsOf(a.month.v, None)
    ELSE MonthsCall(DefaultMonths, None)

args_to_duration_zero_is_absent(a) ==
    LET month == Truthy(a.month) /\ (IsInt(a.month.v) => int(a.month.v) # 0)
    IN  IF Truthy(a.since) /\ Truthy(a.until)
        THEN RangeCall(a.since.v, a.until.v)
        ELSE IF Truthy(a.since) /\ month
        THEN MonthsOf(a.month.v, Some(a.since.v))
        ELSE IF Truthy(a.since)
        THEN MonthsCall(DefaultMonths, Some(a.since.v))
        ELSE IF month
        THEN MonthsOf(a.month.v, None)
        ELSE MonthsCall(DefaultMonths, None)

args_to_duration_drops_since(a) ==
    IF Truthy(a.since) /\ Truthy(a.until)
    THEN RangeCall(a.since.v, a.until.v)
    ELSE IF Truthy(a.since) /\ Truthy(a.month)
    THEN MonthsOf(a.month.v, Some(a.since.v))
    ELSE IF Truthy(a.since)
    THEN MonthsCall(DefaultMonths, None)
    ELSE IF Truthy(a.month)
    THEN MonthsOf(a.month.v, None)
    ELSE MonthsCall(DefaultMonths, None)

\* args_to_duration, as the call into gilot.core it ends with.
args_to_duration(a) ==
    IF Truthy(a.since) /\ Truthy(a.until)
    THEN RangeCall(a.since.v, a.until.v)
    ELSE IF Truthy(a.since) /\ Truthy(a.month)
    THEN MonthsOf(a.month.v, Some(a.since.v))
    ELSE IF Truthy(a.since)
    THEN MonthsCall(DefaultMonths, Some(a.since.v))
    ELSE IF Truthy(a.month)
    THEN MonthsOf(a.month.v, None)
    ELSE MonthsCall(DefaultMonths, None)

\* gilot.core.Duration, from the design document (3, 4.1): a date counts in
\* calendar months; both constructors refuse an empty or reversed window.
ParseDate(d) == d[1] * 12 + d[2] - 1
Window(start, end) == [error |-> "none", start |-> start, end |-> end]
Refused(kind) == [error |-> kind, start |-> 0, end |-> 0]
Duration_range(since, until) ==
    IF ParseDate(since) >= ParseDate(until)
    THEN Refused("InvalidRangeError")
    ELSE Window(ParseDate(since), ParseDate(until))
Duration_months(month, since, today) ==
    IF month <= 0 THEN Refused("InvalidRangeError")
    ELSE IF since.none
    THEN Window(ParseDate(today) - month, ParseDate(today))
    ELSE Window(ParseDate(since.v), ParseDate(since.v) + month)
Resolve(c, today) ==
    CASE c.fn = "range"  -> Duration_range(c.since.v, c.until.v)
      [] c.fn = "months" -> Duration_months(c.month, c.since, today)
      [] OTHER           -> Refused(c.fn)

\* gilot.from_dir, from the design document (4.3): the commits of the
\* repository whose timestamp lies in the window.
RepoTimestamps == {ParseDate(<<2019, 9>>), ParseDate(<<2020, 3>>),
                   ParseDate(<<2020, 8>>), ParseDate(<<2020, 12>>)}
from_dir(d) == {t \in RepoTimestamps : d.start <= t /\ t < d.end}

InitLog ==
    /\ pc = "start"
    /\ args \in [cmd : {"log"}, since : DateArgs, until : DateArgs,
                 month : MonthArgs]
    /\ now \in Dates
    /\ call = NoCall
    /\ duration = NoDuration
    /\ output = NoOutput
    /\ error = "none"
    /\ FilterIdle
    /\ ReportIdle

\* handle_log: args_to_duration, gilot.from_dir, df.to_csv.  An exception of
\* args_to_duration ends the command before anything is extracted or
\* written.
handle_log ==
    /\ pc = "start"
    /\ args.cmd = "log"
    /\ LET c == args_to_duration(args)
           r == Resolve(c, now)
       IN  /\ call' = c
           /\ error' = r.error
           /\ IF r.error # "none"
              THEN /\ duration' = NoDuration
                   /\ output' = NoOutput
                   /\ pc' = "failed"
              ELSE /\ duration' = [start |-> r.start, end |-> r.end]
                   /\ output' = [written |-> TRUE,
                                 rows |-> from_dir(duration')]
                   /\ pc' = "done"
    /\ UNCHANGED <<args, now, filterVars, reportVars>>

NextLog == handle_log

SpecLog == InitLog /\ [][NextLog]_vars

(***************************************************************************)
(* gilot hotspot and gilot hotgraph.                                       *)
(***************************************************************************)
FileA == <<"a", "a">>
FileB == <<"a", "b">>
FileC == <<"b">>
CommitPool ==
    {[hash |-> 1, author |-> "u1", files |-> {FileA, FileB}],
     [hash |-> 2, author |-> "u1", files |-> {FileA, FileB, FileC}],
     [hash |-> 3, author |-> "u2", files |-> {FileA}],
     [hash |-> 4, author |-> "u2", files |-> {FileA, FileC}],
     [hash |-> 5, author |-> "u1", files |-> {FileA, FileB}],
     [hash |-> 6, author |-> "u2", files |-> {FileA, FileC}]}
\* gilot.from_csvs(args.input): the loaded table, in full detail.
Tables == SUBSET CommitPool
DefaultRank == 70
Ranks == {1, 2, DefaultRank}
\* The design document (4.5, 9) leaves the safety bound on the edge count
\* and the maximum retry count to the implementation.
EdgeLimit == 1
MaxRetry == 2

\* Table.expand_files(is_match), from the design document (3, 4.3): one row
\* per commit and touched file whose name satisfies the predicate.
expand_files(df, cl, h) ==
    LET touched == {x \in df \X {FileA, FileB, FileC} :
                      x[2] \in x[1].files /\ match(cl, h, x[2])}
    IN  {[hash |-> x[1].hash, author |-> x[1].author, file_name |-> x[2]] :
            x \in touched}

FilesOf(rows) == {r.file_name : r \in rows}

\* gilot.hotspot, from the design document (4.4): per file the distinct
\* commits and authors, and their product as the score.
hotspot(rows) ==
    {LET commits == Cardinality({r.hash : r \in {x \in rows : x.file_name = f}})
         authors == Cardinality({r.author : r \in {x \in rows : x.file_name = f}})
     IN  [file_name |-> f, commits |-> commits, authors |-> authors,
          hotspot |-> commits * authors] : f \in FilesOf(rows)}

\* gilot.hotgraph, from the design document (4.5).  Step 1: the weight of a
\* pair of files is the number of commits that touch both.
Together(rows, x, y) ==
    {r.hash : r \in {z \in rows : z.file_name = x}}
        \cap {r.hash : r \in {z \in rows : z.file_name = y}}
Weights(rows) ==
    {e \in [pair : SUBSET FilesOf(rows), weight : 1..Cardinality(rows)] :
        /\ Cardinality(e.pair) = 2
        /\ \E x, y \in e.pair :
             /\ x # y
             /\ e.weight = Cardinality(Together(rows, x, y))}
\* Step 2: the threshold is the rank-th largest distinct weight (the
\* smallest one when there are fewer).
Threshold(weights, rank) ==
    LET ws == {e.weight : e \in weights}
        nth == IF rank < Cardinality(ws) THEN rank ELSE Cardinality(ws)
    IN  IF ws = {} THEN 1
        ELSE CHOOSE w \in ws : Cardinality({v \in ws : v >= w}) = nth
\* Step 3: the edges at or above the threshold, and the nodes they join.
BuildAt(g, threshold) ==
    LET edges == {e \in g.weights : e.weight >= threshold}
    IN  [g EXCEPT !.threshold = threshold,
                  !.edges = edges,
                  !.nodes = UNION {e.pair : e \in edges},
                  !.passes = g.passes + 1]
FirstPass(rows, rank, stop_retry) ==
    LET g == [NoGraph EXCEPT !.rank = rank, !.stop_retry = stop_retry,
                             !.weights = Weights(rows)]
    IN  BuildAt(g, Threshold(g.weights, rank))
\* Step 4: retry while the graph is too dense, unless told not to.
NeedsRetry(g) ==
    /\ ~g.stop_retry
    /\ Cardinality(g.edges) > EdgeLimit
    /\ g.retries < MaxRetry
Escalated(g) == BuildAt([g EXCEPT !.retries = g.retries + 1], g.threshold + 1)

InitReport ==
    /\ pc = "start"
    /\ \/ args \in [cmd : {"hotspot"}, input : Tables,
                    allow_files : ShortLists, ignore_files : ShortLists]
       \/ args \in [cmd : {"hotgraph"}, input : Tables,
                    allow_files : ShortLists, ignore_files : ShortLists,
                    rank : Ranks, stop_retry : BOOLEAN]
    /\ heap = [allow |-> args.allow_files, deny |-> args.ignore_files]
    /\ closure = NoClosure
    /\ built = heap
    /\ file_name = <<>>
    /\ result = FALSE
    /\ mutations = 0
    /\ error = "none"
    /\ LogIdle
    /\ ReportIdle

is_match_allow_only(a) == compose_filter(a.allow_files, None)

\* is_match: the predicate handle_hotspot and handle_hotgraph hand to
\* expand_files.
is_match(a) == compose_filter(a.allow_files, a.ignore_files)

\* handle_hotspot.  What is printed or written afterwards (the first
\* args.num rows, or the csv) is taken from `report` and changes none of it.
handle_hotspot ==
    /\ pc = "start"
    /\ args.cmd = "hotspot"
    /\ closure' = is_match(args)
    /\ expanded' = expand_files(args.input, closure', heap)
    /\ report' = hotspot(expanded')
    /\ pc' = "done"
    /\ UNCHANGED <<heap, built, file_name, result, mutations, args, error,
                   graph, logVars>>

hotgraph_kwargs_single_pass(a) == [rank |-> a.rank, stop_retry |-> TRUE]

hotgraph_kwargs_default_retry(a) == [rank |-> a.rank, stop_retry |-> FALSE]

\* The keyword arguments handle_hotgraph passes to gilot.hotgraph.
hotgraph_kwargs(a) == [rank |-> a.rank, stop_retry |-> a.stop_retry]

\* handle_hotgraph, up to the first pass of gilot.hotgraph.
handle_hotgraph ==
    /\ pc = "start"
    /\ args.cmd = "hotgraph"
    /\ closure' = is_match(args)
    /\ expanded' = expand_files(args.input, closure', heap)
    /\ IF expanded' = {}
       THEN /\ error' = "EmptyGraphError"
            /\ graph' = NoGraph
            /\ pc' = "failed"
       ELSE /\ error' = "none"
            /\ graph' = FirstPass(expanded', hotgraph_kwargs(args).rank,
                                  hotgraph_kwargs(args).stop_retry)
            /\ pc' = IF NeedsRetry(graph') THEN "escalating" ELSE "done"
    /\ UNCHANGED <<heap, built, file_name, result, mutations, args, report,
                   logVars>>

\* One retry of gilot.hotgraph: a higher threshold and a rebuild.
Escalate ==
    /\ pc = "escalating"
    /\ graph' = Escalated(graph)
    /\ pc' = IF NeedsRetry(graph') THEN "escalating" ELSE "done"
    /\ UNCHANGED <<heap, closure, built, file_name, result, mutations, args,
                   error, expanded, report, logVars>>

NextReport == handle_hotspot \/ handle_hotgraph \/ Escalate

SpecReport == InitReport /\ [][NextReport]_vars

\* The retry loop runs inside one call: a retry that is due is taken.
SpecReportFair == SpecReport /\ WF_vars(Escalate) /\ WF_vars(handle_hotgraph)

(***************************************************************************)
(* Claims about the file filter.                                           *)
(***************************************************************************)
Applied == pc = "applied"

\* C1, as stated: for every name n and lists allow and deny, an empty allow
\* list included, the predicate accepts n iff n matches at least one allow
\* pattern and no deny pattern.
C1_Iff_AnyAllow_NoDeny ==
    (Applied /\ ~built.allow.none /\ ~built.deny.none)
        => (result = (AnyMatch(file_name, built.allow.v)
                      /\ ~AnyMatch(file_name, built.deny.v)))

\* C1, amended: the equivalence holds for every non-empty allow list; an
\* empty allow list stands for "allow everything", so the predicate then
\* accepts n iff n matches no deny pattern.
C1_Iff_NonEmptyAllow ==
    (Applied /\ ~built.allow.none /\ ~built.deny.none)
        => /\ built.allow.v # <<>>
              => (result = (AnyMatch(file_name, built.allow.v)
                            /\ ~AnyMatch(file_name, built.deny.v)))
           /\ built.allow.v = <<>>
              => (result = ~AnyMatch(file_name, built.deny.v))

\* C1's case: a name that matches an allow pattern and a deny pattern.
C1_Witness ==
    /\ Applied
    /\ Truthy(built.allow) /\ Truthy(built.deny)
    /\ AnyMatch(file_name, built.allow.v)
    /\ AnyMatch(file_name, built.deny.v)
    /\ ~result

\* The clauses of C2 that do not depend on what an empty allow list means:
\* an absent allow is the one pattern that matches every name, an absent
\* deny is the empty list; with neither the predicate accepts every name,
\* with only deny it accepts exactly the names matching no deny pattern.
C2_Defaults ==
    /\ built.allow.none
         => /\ Deref(heap, closure.allow_list) = <<Star>>
            /\ \A n \in Names : fnmatch(n, Star)
    /\ built.deny.none => Deref(heap, closure.deny_list) = <<>>
    /\ (built.allow.none /\ built.deny.none) => result
    /\ (built.allow.none /\ ~built.deny.none)
         => (result = ~AnyMatch(file_name, built.deny.v))

\* C2, as stated: the defaults, and with only allow supplied the predicate
\* accepts exactly the names matching at least one allow pattern.
C2_Defaults_OnlyAllow ==
    Applied
        => /\ C2_Defaults
           /\ (~built.allow.none /\ built.deny.none)
                => (result = AnyMatch(file_name, built.allow.v))

\* C2, amended: the defaults, and with only a non-empty allow list supplied
\* the predicate accepts exactly the names matching at least one allow
\* pattern; a supplied empty allow list is replaced by the default too.
C2_Defaults_NonEmptyAllow ==
    Applied
        => /\ C2_Defaults
           /\ (Truthy(built.allow) /\ built.deny.none)
                => (result = AnyMatch(file_name, built.allow.v))
           /\ (~built.allow.none /\ built.allow.v = <<>>)
                => Deref(heap, closure.allow_list) = <<Star>>

\* C2's case: no allow list, a deny list, and a name it does not match.
C2_Witness ==
    /\ Applied
    /\ built.allow.none /\ Truthy(built.deny)
    /\ ~AnyMatch(file_name, built.deny.v)
    /\ result

\* The rearrangements of a list.
Rearranged(l) ==
    {[i \in 1..Len(l) |-> l[f[i]]] : f \in Permutations(1..Len(l))}

\* C10: the predicate's result on a name is the same for every rearrangement
\* of the allow list, for every rearrangement of the deny list, and with a
\* pattern of either list repeated; and a name accepted with one more deny
\* pattern is accepted without it.
C10_OrderMultiplicityDeny ==
    Applied
        => /\ ~built.allow.none
                => /\ \A l \in Rearranged(built.allow.v) :
                        Filter(Some(l), built.deny, file_name) = result
                   /\ \A i \in 1..Len(built.allow.v) :
                        Filter(Some(Append(built.allow.v, built.allow.v[i])),
                               built.deny, file_name) = result
           /\ ~built.deny.none
                => /\ \A l \in Rearranged(built.deny.v) :
                        Filter(built.allow, Some(l), file_name) = result
                   /\ \A i \in 1..Len(built.deny.v) :
                        Filter(built.allow,
                               Some(Append(built.deny.v, built.deny.v[i])),
                               file_name) = result
           /\ \A p \in Patterns :
                Filter(built.allow, Some(Append(built.deny.v, p)), file_name)
                    => result

\* C10's case: a name accepted by the second allow pattern only.
C10_Witness ==
    /\ Applied
    /\ ~built.allow.none /\ Len(built.allow.v) = 2
    /\ ~fnmatch(file_name, built.allow.v[1])
    /\ fnmatch(file_name, built.allow.v[2])
    /\ result

\* C8, as stated: the result of an application depends only on the name
\* and on the lists as they were when the predicate was built, whatever was
\* applied before and whatever the caller did to its lists since.
C8_DependsOnBuiltListsOnly ==
    Applied => (result = Filter(built.allow, built.deny, file_name))

\* C8, amended: the predicate reads the caller's own list objects at each
\* application (a list that was empty when the predicate was built is
\* replaced by a private default and never read again).  The result depends
\* only on the name and on the lists as built, whatever was applied before,
\* as long as the caller has not changed a non-empty list it passed.
C8_DependsOnBuiltListsUnlessMutated ==
    (/\ Applied
     /\ Truthy(built.allow) => heap.allow = built.allow
     /\ Truthy(built.deny) => heap.deny = built.deny)
        => (result = Filter(built.allow, built.deny, file_name))

\* C8's case: the caller appended to a list that was empty when it built
\* the predicate, and applied the predicate afterwards.
C8_Witness ==
    /\ Applied
    /\ mutations > 0
    /\ ~built.deny.none /\ built.deny.v = <<>>
    /\ AnyMatch(file_name, heap.deny.v)
    /\ result

(***************************************************************************)
(* Claims about the time window of gilot log.                              *)
(***************************************************************************)
LogEnded == args.cmd = "log" /\ pc \in {"done", "failed"}
\* An option is supplied when it was given a value: argparse leaves None for
\* an option that is absent, and an empty value is no date and no number.
Given(x) == ~x.none /\ x.v # <<>>
MonthCount == int(args.month.v)

\* C3: the rule args_to_duration applies is decided by which of since, until
\* and month are supplied: since and until give the range [since, until),
\* whatever month is; else since and month m give m months from since; else
\* since gives 6 months from since; else month m gives the m months ending
\* now; else the 6 months ending now.  The count of a month rule is m when
\* month is supplied, and 6 when it is not.
C3_FirstMatchingRule ==
    LogEnded =>
      LET s == Given(args.since)
          u == Given(args.until)
          m == Given(args.month)
          ok == error = "none"
          since == ParseDate(args.since.v)
          today == ParseDate(now)
      IN  /\ (s /\ u)
               => /\ call = RangeCall(args.since.v, args.until.v)
                  /\ ok => duration = [start |-> since,
                                       end |-> ParseDate(args.until.v)]
          /\ (s /\ ~u /\ m /\ IsInt(args.month.v))
               => /\ call = MonthsCall(MonthCount, args.since)
                  /\ ok => duration = [start |-> since,
                                       end |-> since + MonthCount]
          /\ (s /\ ~u /\ ~m)
               => /\ call = MonthsCall(6, args.since)
                  /\ ok /\ duration = [start |-> since, end |-> since + 6]
          /\ (~s /\ m /\ IsInt(args.month.v))
               => /\ call = MonthsCall(MonthCount, None)
                  /\ ok => duration = [start |-> today - MonthCount,
                                       end |-> today]
          /\ (~s /\ ~m)
               => /\ call = MonthsCall(6, None)
                  /\ ok /\ duration = [start |-> today - 6, end |-> today]
          /\ call.fn = "months" => call.month = IF m THEN MonthCount ELSE 6

\* C3's case: since alone, so that the third rule is the first to match.
C3_Witness ==
    /\ LogEnded
    /\ Given(args.since) /\ ~Given(args.until) /\ ~Given(args.month)
    /\ pc = "done"
    /\ output.written

\* C4: with since and until supplied and since >= until the command fails
\* with InvalidRangeError: no Duration is returned, nothing is extracted and
\* nothing is written.
C4_ReversedRangeFails ==
    (/\ LogEnded
     /\ Given(args.since) /\ Given(args.until)
     /\ ParseDate(args.since.v) >= ParseDate(args.until.v))
        => /\ pc = "failed"
           /\ error = "InvalidRangeError"
           /\ duration = NoDuration
           /\ output = NoOutput

\* C4's case: since later than until, and a month count on top.
C4_Witness ==
    /\ LogEnded
    /\ Given(args.since) /\ Given(args.until) /\ Given(args.month)
    /\ ParseDate(args.since.v) > ParseDate(args.until.v)
    /\ pc = "failed"

\* C5: with a month count m <= 0 supplied and no until, with or without
\* since, the command fails with InvalidRangeError: there is no Duration,
\* neither an empty or reversed one nor the 6 month default.
C5_NonPositiveMonthFails ==
    (/\ LogEnded
     /\ Given(args.month) /\ IsInt(args.month.v) /\ MonthCount <= 0
     /\ ~Given(args.until))
        => /\ pc = "failed"
           /\ error = "InvalidRangeError"
           /\ call.fn = "months" /\ call.month = MonthCount
           /\ duration = NoDuration
           /\ output = NoOutput

\* C5's case: --month 0 and nothing else.
C5_Witness ==
    /\ LogEnded
    /\ args.month = Some(<<"0">>)
    /\ args.since.none /\ args.until.none
    /\ pc = "failed"

(***************************************************************************)
(* Claims about gilot hotspot and gilot hotgraph.                          *)
(***************************************************************************)
Hotgraph == args.cmd = "hotgraph"
Hotspot == args.cmd = "hotspot"
AutoRetry == Hotgraph /\ ~args.stop_retry
Returned == pc = "done" \/ (pc = "failed" /\ error = "EmptyGraphError")

\* C6: without --stop-retry the graph builder terminates on every input:
\* each retry raises the threshold and counts as one more retry, the retries
\* never exceed the maximum, the loop stops as soon as the edge count is
\* within the safety bound or the maximum is reached, and the command then
\* returns (a graph, or EmptyGraphError for an empty table).
C6_EscalationTerminates ==
    /\ [](AutoRetry => graph.retries <= MaxRetry)
    /\ []((AutoRetry /\ pc = "escalating")
            => (Cardinality(graph.edges) > EdgeLimit /\ graph.retries < MaxRetry))
    /\ []((AutoRetry /\ pc = "done")
            => (Cardinality(graph.edges) <= EdgeLimit \/ graph.retries = MaxRetry))
    /\ [][(AutoRetry /\ pc = "escalating")
            => (/\ graph'.threshold > graph.threshold
                /\ graph'.retries = graph.retries + 1)]_vars
    /\ (AutoRetry /\ pc = "start") ~> (AutoRetry /\ Returned)

\* C6's case: the loop gave up at the maximum retry count with the graph
\* still above the safety bound.
C6_Witness ==
    /\ AutoRetry
    /\ pc = "done"
    /\ graph.retries = MaxRetry
    /\ Cardinality(graph.edges) > EdgeLimit

\* C7: with --stop-retry the graph is built in one pass at the threshold
\* chosen from rank, whatever the edge count: no retry, no raised threshold;
\* and the builder receives the rank and stop_retry of the command line.
C7_SinglePass ==
    /\ (Hotgraph /\ pc \in {"escalating", "done"})
         => /\ graph.rank = args.rank
            /\ graph.stop_retry = args.stop_retry
    /\ (Hotgraph /\ args.stop_retry) => pc # "escalating"
    /\ (Hotgraph /\ args.stop_retry /\ pc = "done")
         => /\ graph.passes = 1
            /\ graph.retries = 0
            /\ graph.threshold = Threshold(Weights(expanded), args.rank)
            /\ graph.edges = {e \in Weights(expanded) :
                                e.weight >= graph.threshold}

\* C7's case: a single pass that left more edges than the safety bound.
C7_Witness ==
    /\ Hotgraph /\ args.stop_retry
    /\ pc = "done"
    /\ Cardinality(graph.edges) > EdgeLimit

\* What a file name contributes to after the command: a hotspot row, rows
\* of the expanded table, an edge weight, a node.
Contributes(f) ==
    \/ f \in FilesOf(expanded)
    \/ \E r \in report : r.file_name = f
    \/ \E e \in graph.weights : f \in e.pair
    \/ f \in graph.nodes
\* The counts of a file that passes are those of the commits that touch it.
CountsOf(f) ==
    LET touching == {c \in args.input : f \in c.files}
    IN  [file_name |-> f,
         commits |-> Cardinality({c.hash : c \in touching}),
         authors |-> Cardinality({c.author : c \in touching}),
         hotspot |-> Cardinality({c.hash : c \in touching})
                       * Cardinality({c.author : c \in touching})]
ReportEnded == (Hotspot \/ Hotgraph) /\ pc \in {"escalating", "done", "failed"}
\* The patterns of an option: none when the option is absent.
Given_allow == IF args.allow_files.none THEN <<Star>> ELSE args.allow_files.v
Given_deny == args.ignore_files.v

\* C9, as stated: every hotspot row and graph node satisfies the predicate,
\* and a name that matches a deny pattern or matches no allow pattern
\* contributes to no count and no edge weight.
C9_FilteredBeforeAggregation ==
    ReportEnded =>
      /\ \A f \in Names :
           Contributes(f) => Filter(args.allow_files, args.ignore_files, f)
      /\ \A f \in Names :
           (AnyMatch(f, Given_deny) \/ ~AnyMatch(f, Given_allow))
               => ~Contributes(f)

\* C9, amended: every hotspot row and graph node satisfies the predicate,
\* and a name that matches a deny pattern, or matches no pattern of a
\* non-empty allow list, contributes to no count and no edge weight; the
\* names that pass keep the counts and weights of the commits touching them.
C9_FilteredBeforeAggregation_NonEmptyAllow ==
    ReportEnded =>
      /\ \A f \in Names :
           Contributes(f) => Filter(args.allow_files, args.ignore_files, f)
      /\ \A f \in Names :
           (\/ AnyMatch(f, Given_deny)
            \/ (Given_allow # <<>> /\ ~AnyMatch(f, Given_allow)))
               => ~Contributes(f)
      /\ (Hotspot /\ pc = "done")
           => \A f \in FilesOf(expanded) : CountsOf(f) \in report
      /\ (Hotgraph /\ pc # "failed")
           => \A e \in graph.weights :
                e.weight = Cardinality({c \in args.input : e.pair \subseteq c.files})

\* C9's case: a denied file of the table is in no hotspot row while another
\* file of the same commit is.
C9_Witness ==
    /\ Hotspot /\ pc = "done"
    /\ \E c \in args.input : \E f, k \in c.files :
         /\ AnyMatch(f, Given_deny)
         /\ ~Contributes(f)
         /\ Contributes(k)

====
